---- MODULE Spec2Model ----
(***************************************************************************)
(* State-machine model of AutoTrader (autotrader.py): the quote-and-hedge  *)
(* decision core of a market maker on an ETF hedged with a future.         *)
(*                                                                         *)
(* Every handler of the class is one action.  The exchange is the          *)
(* environment: it delivers book snapshots, fills, order statuses, errors  *)
(* and hedge fills, one event at a time, each handled to completion.       *)
(*                                                                         *)
(* Numbers.  Python floats are modelled by exact integer arithmetic:       *)
(*   - ln(p) - ln(avg) is taken to first order, 2(p - avg)/(p + avg), so   *)
(*     1/|ln(p) - ln(avg)| is (2p + A2) / (2|2p - A2|) with A2 = 2 avg =   *)
(*     best ask + best bid; it is kept in thousandths (DistanceMilli);     *)
(*   - floor(K * sqrt(x) * sqrt(y)) is the largest n with n*n <= K*K*x*y.  *)
(* A float operation that raises in Python (division by zero, sqrt of a    *)
(* negative number) sets `raised`: the exception leaves the handler where  *)
(* it is thrown, the assignments made before it stay, and the process      *)
(* handles no further event.                                               *)
(***************************************************************************)
EXTENDS Integers, Sequences, FiniteSets, TLC

-----------------------------------------------------------------------------
(* Program constants *)

POSITION_LIMIT == 100
TICK_SIZE_IN_CENTS == 100
MINIMUM_BID == 1
MAXIMUM_ASK == 2147483647
MIN_BID_NEAREST_TICK ==
    ((MINIMUM_BID + TICK_SIZE_IN_CENTS) \div TICK_SIZE_IN_CENTS) * TICK_SIZE_IN_CENTS
MAX_ASK_NEAREST_TICK ==
    (MAXIMUM_ASK \div TICK_SIZE_IN_CENTS) * TICK_SIZE_IN_CENTS
LIQUIDITY_THRESHOLDS == <<15000000, 40000000, 65000000>>
POSITION_THRESHOLDS == <<-90, -50, -25, 25, 50, 90>>
UNHEDGED_LIMIT == 50
HEDGED_THRESHOLD == 100
SPREAD == 3
LOT_SIZE_ARBITARY_NUMBER == 40
max_l == 20000000
UNHEDGED_POSITION == 10

BUY == "BUY"
SELL == "SELL"
FUTURE == 0
ETF == 1

-----------------------------------------------------------------------------
(* Bounds of the model *)

\* order ids run from 1 to MaxId; the exchange delivers no event whose
\* handler would need a larger id
MaxId == 3
\* the same bound where only the long side is quoted (SpecLong)
MaxIdLong == 5
\* the same bound where order events go astray (SpecLossy)
MaxIdLossy == 2
\* the same bound where every fill has a volume of 1 or more (SpecWhole)
MaxIdWhole == 8
\* the same bound where fills of every kind are delivered (SpecNet)
MaxIdNet == 3
\* the same bound where every hedge order is answered (SpecFair)
MaxIdFair == 3
\* the same bound where every handler is called (SpecFrame)
MaxIdFrame == 3
\* the same bound where books are one-sided or locked (SpecOdd)
MaxIdOdd == 2
\* ids and clock where hedge orders are followed up (SpecHedge): room for a
\* second emergency
MaxIdHedge == 5
MaxTimeHedge == 120
\* the largest volume of a level where volumes are raised (SpecLiquidity)
MaxVolume == 2
\* the clock (event_loop.time(), read in whole seconds) runs from 0 to MaxTime
MaxTime == 60

-----------------------------------------------------------------------------
(* Small helpers *)

Abs(x) == IF x < 0 THEN -x ELSE x
Min(a, b) == IF a < b THEN a ELSE b
Max(a, b) == IF a > b THEN a ELSE b

\* floor(a * b / c) for a, b >= 0 and c > 0, without forming a * b when a is
\* large: a = c*q + r gives a*b/c = q*b + r*b/c
MulDiv(a, b, c) == (a \div c) * b + ((a % c) * b) \div c

RECURSIVE SumTo(_, _)
SumTo(f, n) == IF n = 0 THEN 0 ELSE f[n] + SumTo(f, n - 1)

\* the ids of an order set in the order a Python dict iterates them: ids are
\* handed out increasing and inserted as they are created
RECURSIVE IdsAscending(_)
IdsAscending(S) ==
    IF S = {} THEN <<>>
    ELSE LET m == CHOOSE x \in S : \A y \in S : x <= y
         IN <<m>> \o IdsAscending(S \ {m})

Remove(order_set, id) == [i \in (DOMAIN order_set) \ {id} |-> order_set[i]]

-----------------------------------------------------------------------------
(* Outbound commands *)

CancelCmd(id) == [cmd |-> "cancel", id |-> id, side |-> "", price |-> 0, lot |-> 0]
InsertCmd(id, side, price, lot) ==
    [cmd |-> "insert", id |-> id, side |-> side, price |-> price, lot |-> lot]
HedgeCmd(id, side, price, lot) ==
    [cmd |-> "hedge", id |-> id, side |-> side, price |-> price, lot |-> lot]

Order(id, price, lot) == [id |-> id, price |-> price, lot |-> lot]

-----------------------------------------------------------------------------
(* calc_liquidity *)

\* the distance without abs(): 1 / (ln(price) - ln(avg)), negative below the mid
DistanceMilliSigned(price, A2) ==
    ((2 * price + A2) * 1000) \div (2 * (2 * price - A2))

\* 1 / |ln(price) - ln(avg)| in thousandths, avg = A2 / 2; only called with
\* price /= 0 and 2 * price /= A2
DistanceMilli(price, A2) ==
    ((2 * price + A2) * 1000) \div (2 * Abs(2 * price - A2))

\* the level at which 1 / abs(log(price) - log(avg)) divides by zero
LiquidityRaises(A2, prices) ==
    \E i \in 1..Len(prices) : prices[i] /= 0 /\ 2 * prices[i] = A2

calc_liquidity(A2, prices, volumes) ==
    LET weights == [i \in 1..Len(volumes) |->
                      IF prices[i] /= 0
                      THEN MulDiv(volumes[i], DistanceMilli(prices[i], A2), 1000)
                      ELSE 0]
    IN SumTo(weights, Len(volumes))

-----------------------------------------------------------------------------
(* calc_lot_size *)

SignedPosition(etf_pos, is_ask) == IF is_ask THEN -etf_pos ELSE etf_pos

\* math.sqrt(1 - (position + 100) / 200) raises ValueError when its argument
\* is negative, i.e. when position > 100
LotSizeRaises(etf_pos, is_ask) == SignedPosition(etf_pos, is_ask) > 100

\* The double-precision product falls just below the exact integer where the
\* exact value of 40 * sqrt(..) * sqrt(..) is an integer and a factor is
\* rounded down.  With liquidity at the cap (the second factor is exactly 1)
\* this happens for position = 82 alone in -700..100: 1 - 182/200 evaluates to
\* 0.08999999999999997 and 40 * sqrt of it to 11.999999999999998.
FloatShortfall(position, liq) == liq = max_l /\ position = 82

\* floor(sqrt(q)) for q in 0..6400, tabulated once
FloorSqrt ==
    [q \in 0..6400 |-> CHOOSE n \in 0..80 : n * n <= q /\ q < (n + 1) * (n + 1)]

\* calc_lot_size without `liquidity = min(liquidity, max_l)`
calc_lot_size_uncapped(etf_pos, liquidity, is_ask) ==
    FloorSqrt[((100 - SignedPosition(etf_pos, is_ask)) * (liquidity \div 2500))
              \div 1000]

\* floor(40 * sqrt((100 - position)/200) * sqrt(liquidity/max_l)): the largest
\* n with n*n * 200 * max_l <= 1600 * (100 - position) * liquidity, i.e.
\* n*n <= (100 - position) * liquidity / 2500000; the quotient is at most
\* 6400 as long as position >= -700.  Only called when LotSizeRaises is false.
calc_lot_size(etf_pos, liquidity, is_ask) ==
    LET liq == Min(liquidity, max_l)
        position == SignedPosition(etf_pos, is_ask)
        exact == FloorSqrt[((100 - position) * (liq \div 2500)
                              + ((100 - position) * (liq % 2500)) \div 2500)
                           \div 1000]
    IN IF FloatShortfall(position, liq) THEN exact - 1 ELSE exact

-----------------------------------------------------------------------------
(* calc_price *)

CountAbove(x, thresholds) ==
    Cardinality({i \in 1..Len(thresholds) : x > thresholds[i]})

PositionAdj(etf_pos, is_ask) ==
    LET adj == -3 + CountAbove(etf_pos, POSITION_THRESHOLDS)
    IN IF is_ask THEN -adj ELSE adj

EmergencyAdj(adj, is_ask) ==
    LET e == IF adj = -3 THEN 3 ELSE IF adj = 3 THEN -3 ELSE 0
    IN IF is_ask THEN -e ELSE e

SpreadIndex(etf_pos, liquidity, is_ask) ==
    LET spread == SPREAD - CountAbove(liquidity, LIQUIDITY_THRESHOLDS)
    IN Min(4, Max(0, spread + PositionAdj(etf_pos, is_ask)))

\* prices is 1-indexed here: level `spread` of the code is prices[spread + 1]
calc_price(etf_pos, prices, liquidity, is_ask) ==
    LET spread == SpreadIndex(etf_pos, liquidity, is_ask)
        emergency_adj == EmergencyAdj(PositionAdj(etf_pos, is_ask), is_ask)
    IN IF prices[spread + 1] /= 0
       THEN prices[spread + 1] + emergency_adj * TICK_SIZE_IN_CENTS
       ELSE 0

-----------------------------------------------------------------------------
(* Order book snapshots the exchange may deliver (five levels a side, index 1 *)
(* = best, price 0 = no level)                                                *)

Book(ap, av, bp, bv) ==
    [ask_prices |-> ap, ask_volumes |-> av, bid_prices |-> bp, bid_volumes |-> bv]

\* no snapshot yet
NoBook == Book(<<0, 0, 0, 0, 0>>, <<0, 0, 0, 0, 0>>, <<0, 0, 0, 0, 0>>, <<0, 0, 0, 0, 0>>)
\* deep bids, one thin ask level
BidHeavy == Book(<<10100, 0, 0, 0, 0>>, <<100, 0, 0, 0, 0>>,
                 <<9900, 9800, 9700, 9600, 9500>>, <<200000, 100000, 50000, 0, 0>>)
\* one deep ask level two ticks above the minimum price
ThinAsk == Book(<<200, 0, 0, 0, 0>>, <<8000000, 0, 0, 0, 0>>,
                <<100, 0, 0, 0, 0>>, <<10, 0, 0, 0, 0>>)
\* deep asks a few ticks above the minimum price
LowAsk == Book(<<200, 300, 400, 500, 600>>, <<8000000, 0, 0, 0, 0>>,
               <<100, 0, 0, 0, 0>>, <<10, 0, 0, 0, 0>>)
\* no bid level at all
NoBid == Book(<<10100, 10200, 10300, 10400, 10500>>, <<20000000, 100000, 50000, 0, 0>>,
              <<0, 0, 0, 0, 0>>, <<0, 0, 0, 0, 0>>)
\* best bid = best ask: both are priced at the mid price
Locked == Book(<<10000, 10100, 10200, 10300, 10400>>, <<200000, 100000, 50000, 0, 0>>,
               <<10000, 9900, 9800, 9700, 9600>>, <<200000, 100000, 50000, 0, 0>>)

\* two books too thin to quote against
Quiet == Book(<<200, 0, 0, 0, 0>>, <<1, 0, 0, 0, 0>>,
              <<100, 0, 0, 0, 0>>, <<1, 0, 0, 0, 0>>)
Quieter == Book(<<200, 0, 0, 0, 0>>, <<2, 0, 0, 0, 0>>,
                <<100, 0, 0, 0, 0>>, <<2, 0, 0, 0, 0>>)

Books == {BidHeavy, LowAsk}
\* the books on which a handler stops half-way or leaves its lots as they were
OddBooks == {NoBid, Locked}
\* the books of a market in which the trader only gets long
LongBooks == {BidHeavy, ThinAsk}

\* whole seconds between two reads of the clock by successive book updates:
\* books arrive several times a second, so a short gap is 0; a long gap
\* outlasts UNHEDGED_LIMIT
TimeSteps == {0, UNHEDGED_LIMIT + 10}

\* volume of one fill of a quote order with `remaining` lots open: all of it,
\* or one of the partial volumes parts
FillVolumes(remaining, parts) ==
    {v \in parts \cup {remaining} : 1 <= v /\ v <= remaining}
PartialVolumes == {20}

\* volume a hedge-fill event reports for a hedge order of `lot` lots: all of
\* it, or nothing (an unsuccessful hedge order reports volume 0)
HedgeVolumes(lot) == {0, lot}

-----------------------------------------------------------------------------
(* State *)

VARIABLES
    \* AutoTrader fields
    order_ids,          \* the id the next call of next(self.order_ids) returns
    etf_bids, etf_asks, \* quote orders: id -> Order
    futures_bids, futures_asks,  \* hedge orders: id -> Order
    etf_position, futures_position, position,
    is_hedging,
    unhedged_start, unhedged_interval,
    new_bid_lot, new_bid_price, bid_liquidity,
    new_ask_lot, new_ask_price, ask_liquidity,
    \* the process
    raised,             \* a handler has thrown
    sent,               \* the commands the last handler issued, in order
    last,               \* the event the last handler was called with
    \* the exchange and the clock
    now,                \* event_loop.time() at its last read
    ex_remaining,       \* quote id -> lots of it the exchange can still fill
    cancelled,          \* quote ids a cancel has been sent for
    dead,               \* hedge ids the exchange has answered with an error
    \* what the formulas need to know of the past
    book,               \* the snapshot the last quoting pass was called with
    emergency_order     \* the id of the last order emergency_hedge submitted

quotes == <<etf_bids, etf_asks>>
hedges == <<futures_bids, futures_asks>>
positions == <<etf_position, futures_position, position>>
timer == <<unhedged_start, unhedged_interval>>
targets == <<new_bid_lot, new_bid_price, bid_liquidity,
             new_ask_lot, new_ask_price, ask_liquidity>>
exchange == <<now, ex_remaining, cancelled, dead>>
history == <<book, emergency_order>>
vars == <<order_ids, quotes, hedges, positions, is_hedging, timer, targets,
          raised, sent, last, exchange, history>>

EmptySet == <<>>

QuoteIds == DOMAIN etf_bids \cup DOMAIN etf_asks
HedgeIds == DOMAIN futures_bids \cup DOMAIN futures_asks
KnownIds == QuoteIds \cup HedgeIds

\* an event as `last` records it: the handler, the order id (the instrument
\* for a book), the volume, and whether the id was in one of the four order
\* sets when the event arrived
OrderOps == {"fill", "hedge_fill", "status", "error"}
Event(op, id, vol) ==
    [op |-> op, id |-> id, vol |-> vol, held |-> op \in OrderOps /\ id \in KnownIds]

Init ==
    /\ order_ids = 1
    /\ etf_bids = EmptySet /\ etf_asks = EmptySet
    /\ futures_bids = EmptySet /\ futures_asks = EmptySet
    /\ etf_position = 0 /\ futures_position = 0 /\ position = 0
    /\ is_hedging = FALSE
    /\ unhedged_start = 0 /\ unhedged_interval = 0
    /\ new_bid_lot = 0 /\ new_bid_price = 0 /\ bid_liquidity = 0
    /\ new_ask_lot = 0 /\ new_ask_price = 0 /\ ask_liquidity = 0
    /\ raised = FALSE
    /\ sent = <<>>
    /\ last = Event("init", 0, 0)
    /\ now = 0
    /\ book = NoBook
    /\ emergency_order = 0
    /\ ex_remaining = EmptySet
    /\ cancelled = {}
    /\ dead = {}

-----------------------------------------------------------------------------
(* reset_orders *)

CancelAll(order_set) ==
    LET ids == IdsAscending(DOMAIN order_set)
    IN [i \in 1..Len(ids) |-> CancelCmd(ids[i])]

InsertGuard(side, lot, price, etf_pos) ==
    /\ lot /= 0
    /\ price /= 0
    /\ Abs(etf_pos + (IF side = BUY THEN lot ELSE -lot)) < POSITION_LIMIT

\* a cancel taken as final: the cancelled orders leave the set at once
reset_orders_dropping(order_set, side, lot, price, etf_pos, next_id) ==
    IF InsertGuard(side, lot, price, etf_pos)
    THEN [order_set |-> (next_id :> Order(next_id, price, lot)),
          order_ids |-> next_id + 1,
          cmds |-> CancelAll(order_set) \o <<InsertCmd(next_id, side, price, lot)>>,
          base |-> next_id]
    ELSE [order_set |-> EmptySet,
          order_ids |-> next_id,
          cmds |-> CancelAll(order_set),
          base |-> 0]

\* the order set, the id counter and the commands after
\* reset_orders(order_set, side, lot, price); base = 0 stands for None
reset_orders(order_set, side, lot, price, etf_pos, next_id) ==
    IF InsertGuard(side, lot, price, etf_pos)
    THEN [order_set |-> order_set @@ (next_id :> Order(next_id, price, lot)),
          order_ids |-> next_id + 1,
          cmds |-> CancelAll(order_set) \o <<InsertCmd(next_id, side, price, lot)>>,
          base |-> next_id]
    ELSE [order_set |-> order_set,
          order_ids |-> next_id,
          cmds |-> CancelAll(order_set),
          base |-> 0]

-----------------------------------------------------------------------------
(* calc_lot_sizes: the four assignments in order, each of which may throw *)

Targets(bl, bq, al, aq, r) ==
    [bid_liquidity |-> bl, new_bid_lot |-> bq,
     ask_liquidity |-> al, new_ask_lot |-> aq, raised |-> r]

calc_lot_sizes(b, etf_pos, bl0, bq0, al0, aq0) ==
    LET A2 == b.ask_prices[1] + b.bid_prices[1]
    IN  IF b.ask_prices[1] = 0 \/ b.bid_prices[1] = 0
        THEN Targets(bl0, bq0, al0, aq0, FALSE)
        ELSE IF LiquidityRaises(A2, b.bid_prices)
        THEN Targets(bl0, bq0, al0, aq0, TRUE)
        ELSE LET bl == calc_liquidity(A2, b.bid_prices, b.bid_volumes) IN
        IF LotSizeRaises(etf_pos, FALSE)
        THEN Targets(bl, bq0, al0, aq0, TRUE)
        ELSE LET bq == calc_lot_size(etf_pos, bl, FALSE) IN
        IF LiquidityRaises(A2, b.ask_prices)
        THEN Targets(bl, bq, al0, aq0, TRUE)
        ELSE LET al == calc_liquidity(A2, b.ask_prices, b.ask_volumes) IN
        IF LotSizeRaises(etf_pos, TRUE)
        THEN Targets(bl, bq, al, aq0, TRUE)
        ELSE Targets(bl, bq, al, calc_lot_size(etf_pos, al, TRUE), FALSE)

-----------------------------------------------------------------------------
(* emergency_hedge *)

\* emergency_hedge without the buffer: the whole position is hedged
emergency_hedge_whole(pos, id) ==
    IF pos > 0
    THEN HedgeCmd(id, SELL, MIN_BID_NEAREST_TICK, pos)
    ELSE HedgeCmd(id, BUY, MAX_ASK_NEAREST_TICK, Abs(pos))

\* the hedge order emergency_hedge submits at net position pos
emergency_hedge(pos, id) ==
    IF pos > 0
    THEN HedgeCmd(id, SELL, MIN_BID_NEAREST_TICK, pos - UNHEDGED_POSITION)
    ELSE HedgeCmd(id, BUY, MAX_ASK_NEAREST_TICK, Abs(UNHEDGED_POSITION + pos))

\* order_set[order.id] = order for a hedge command h (none when h is absent)
WithHedge(order_set, side, hs) ==
    IF hs /= <<>> /\ hs[1].side = side
    THEN order_set @@ (hs[1].id :> Order(hs[1].id, hs[1].price, hs[1].lot))
    ELSE order_set

-----------------------------------------------------------------------------
(* on_order_book_update_message *)

\* keeping track of unhedged lots, with the clock reading t
Tracking == Abs(position) > UNHEDGED_POSITION /\ ~is_hedging
IntervalAt(t) == IF Tracking THEN t - unhedged_start ELSE 0
StartAt(t) == IF Tracking THEN unhedged_start ELSE t
Emergency(t) == IntervalAt(t) > UNHEDGED_LIMIT /\ ~is_hedging

\* instrument == Instrument.ETF: nothing but the log line
EtfBook ==
    /\ sent' = <<>>
    /\ last' = Event("book", ETF, 0)
    /\ UNCHANGED <<order_ids, quotes, hedges, positions, is_hedging, timer,
                   targets, raised, exchange, history>>

\* the emergency branch: emergency_hedge, the timer reset, both sides
\* cancelled with reset_orders(order_set, 0, 0, 0), return
EmergencyTick(t) ==
    /\ Emergency(t)
    /\ LET h == <<emergency_hedge(position, order_ids)>>
           rb == reset_orders(etf_bids, SELL, 0, 0, etf_position, order_ids + 1)
           ra == reset_orders(etf_asks, SELL, 0, 0, etf_position, rb.order_ids)
       IN /\ is_hedging' = TRUE
          /\ futures_asks' = WithHedge(futures_asks, SELL, h)
          /\ futures_bids' = WithHedge(futures_bids, BUY, h)
          /\ order_ids' = ra.order_ids
          /\ etf_bids' = rb.order_set
          /\ etf_asks' = ra.order_set
          /\ sent' = h \o rb.cmds \o ra.cmds
    /\ unhedged_start' = t
    /\ unhedged_interval' = 0
    /\ cancelled' = cancelled \cup QuoteIds
    /\ now' = t
    /\ last' = Event("book", FUTURE, 0)
    /\ emergency_order' = order_ids
    /\ UNCHANGED <<positions, targets, raised, ex_remaining, dead, book>>

\* the lots the exchange can fill, once the orders of cmds are inserted
WithInserted(remaining, cmds) ==
    LET inserted == {i \in 1..Len(cmds) : cmds[i].cmd = "insert"}
    IN [id \in DOMAIN remaining \cup {cmds[i].id : i \in inserted} |->
          IF id \in DOMAIN remaining THEN remaining[id]
          ELSE cmds[CHOOSE i \in inserted : cmds[i].id = id].lot]

\* the quoting branch: calc_lot_sizes, calc_price for each side, reset_orders
\* for each side (each value is computed once and bound)
QuoteTick(b, t) ==
    /\ ~Emergency(t)
    /\ \E ls \in {calc_lot_sizes(b, etf_position, bid_liquidity, new_bid_lot,
                                 ask_liquidity, new_ask_lot)} :
          /\ bid_liquidity' = ls.bid_liquidity
          /\ new_bid_lot' = ls.new_bid_lot
          /\ ask_liquidity' = ls.ask_liquidity
          /\ new_ask_lot' = ls.new_ask_lot
          /\ raised' = ls.raised
          /\ IF ls.raised
             THEN /\ sent' = <<>>
                  /\ UNCHANGED <<order_ids, quotes, new_bid_price, new_ask_price,
                                 ex_remaining, cancelled>>
             ELSE \E bp \in {calc_price(etf_position, b.bid_prices,
                                        ls.bid_liquidity, FALSE)},
                     ap \in {calc_price(etf_position, b.ask_prices,
                                        ls.ask_liquidity, TRUE)} :
                  \E rb \in {reset_orders(etf_bids, BUY, ls.new_bid_lot, bp,
                                          etf_position, order_ids)} :
                  \E ra \in {reset_orders(etf_asks, SELL, ls.new_ask_lot, ap,
                                          etf_position, rb.order_ids)} :
                      /\ new_bid_price' = bp
                      /\ new_ask_price' = ap
                      /\ etf_bids' = rb.order_set
                      /\ etf_asks' = ra.order_set
                      /\ order_ids' = ra.order_ids
                      /\ sent' = rb.cmds \o ra.cmds
                      /\ cancelled' = cancelled \cup QuoteIds
                      /\ ex_remaining' = WithInserted(ex_remaining, rb.cmds \o ra.cmds)
    /\ unhedged_start' = StartAt(t)
    /\ unhedged_interval' = IntervalAt(t)
    /\ now' = t
    /\ last' = Event("book", FUTURE, 0)
    /\ book' = b
    /\ UNCHANGED <<hedges, positions, is_hedging, dead, emergency_order>>

on_order_book_update_message(instrument, b, dt) ==
    /\ ~raised
    /\ IF instrument = FUTURE
       THEN \/ EmergencyTick(now + dt)
            \/ QuoteTick(b, now + dt)
       ELSE EtfBook

-----------------------------------------------------------------------------
(* on_order_filled_message *)

EtfAfterFill(id, volume, pos) ==
    IF id \in DOMAIN etf_bids THEN pos + volume
    ELSE IF id \in DOMAIN etf_asks THEN pos - volume
    ELSE pos

\* the hedge order (none or one) the handler submits once the positions are
\* updated
HedgeAfterFill(etf_pos, fut_pos, id) ==
    IF Abs(etf_pos) > HEDGED_THRESHOLD
    THEN LET lot_size == etf_pos - fut_pos
         IN IF lot_size > 0
            THEN <<HedgeCmd(id, BUY, MAX_ASK_NEAREST_TICK, lot_size)>>
            ELSE <<HedgeCmd(id, SELL, MIN_BID_NEAREST_TICK, -lot_size)>>
    ELSE IF fut_pos > 0
         THEN <<HedgeCmd(id, SELL, MIN_BID_NEAREST_TICK, fut_pos)>>
         ELSE IF fut_pos < 0
         THEN <<HedgeCmd(id, BUY, MAX_ASK_NEAREST_TICK, -fut_pos)>>
         ELSE <<>>

\* the fill booked on the future as well
on_order_filled_message_both(id, volume) ==
    LET hs == HedgeAfterFill(EtfAfterFill(id, volume, etf_position),
                             futures_position, order_ids)
    IN /\ ~raised
       /\ etf_position' = EtfAfterFill(id, volume, etf_position)
       /\ position' = EtfAfterFill(id, volume, position)
       /\ futures_position' = EtfAfterFill(id, volume, futures_position)
       /\ futures_bids' = WithHedge(futures_bids, BUY, hs)
       /\ futures_asks' = WithHedge(futures_asks, SELL, hs)
       /\ order_ids' = order_ids + Len(hs)
       /\ sent' = hs
       /\ last' = Event("fill", id, volume)
       /\ UNCHANGED <<quotes, is_hedging, timer, targets,
                      raised, now, cancelled, dead, history>>

on_order_filled_message(id, volume) ==
    LET hs == HedgeAfterFill(EtfAfterFill(id, volume, etf_position),
                             futures_position, order_ids)
    IN /\ ~raised
       /\ etf_position' = EtfAfterFill(id, volume, etf_position)
       /\ position' = EtfAfterFill(id, volume, position)
       /\ futures_bids' = WithHedge(futures_bids, BUY, hs)
       /\ futures_asks' = WithHedge(futures_asks, SELL, hs)
       /\ order_ids' = order_ids + Len(hs)
       /\ sent' = hs
       /\ last' = Event("fill", id, volume)
       /\ UNCHANGED <<quotes, futures_position, is_hedging, timer, targets,
                      raised, now, cancelled, dead, history>>

-----------------------------------------------------------------------------
(* on_hedge_filled_message *)

\* "Unhedge": the order submitted when a hedge fill arrives while is_hedging
Unhedge(hedging, side, price, volume, id) ==
    IF hedging THEN <<HedgeCmd(id, side, price, volume)>> ELSE <<>>

\* the hedge fill booked on futures_position alone
on_hedge_filled_message_unbooked(id, volume) ==
    /\ ~raised
    /\ IF id \in DOMAIN futures_bids
       THEN LET hs == Unhedge(is_hedging, SELL, MIN_BID_NEAREST_TICK, volume, order_ids)
            IN /\ futures_position' = futures_position + volume
               /\ futures_bids' = Remove(futures_bids, id)
               /\ futures_asks' = WithHedge(futures_asks, SELL, hs)
               /\ order_ids' = order_ids + Len(hs)
               /\ is_hedging' = FALSE
               /\ sent' = hs
       ELSE IF id \in DOMAIN futures_asks
       THEN LET hs == Unhedge(is_hedging, BUY, MAX_ASK_NEAREST_TICK, volume, order_ids)
            IN /\ futures_position' = futures_position - volume
               /\ futures_asks' = Remove(futures_asks, id)
               /\ futures_bids' = WithHedge(futures_bids, BUY, hs)
               /\ order_ids' = order_ids + Len(hs)
               /\ is_hedging' = FALSE
               /\ sent' = hs
       ELSE /\ sent' = <<>>
            /\ UNCHANGED <<order_ids, hedges, futures_position, is_hedging>>
    /\ last' = Event("hedge_fill", id, volume)
    /\ UNCHANGED <<quotes, etf_position, position, timer, targets, raised,
                   exchange, history>>

on_hedge_filled_message(id, volume) ==
    /\ ~raised
    /\ IF id \in DOMAIN futures_bids
       THEN LET hs == Unhedge(is_hedging, SELL, MIN_BID_NEAREST_TICK, volume, order_ids)
            IN /\ futures_position' = futures_position + volume
               /\ position' = position + volume
               /\ futures_bids' = Remove(futures_bids, id)
               /\ futures_asks' = WithHedge(futures_asks, SELL, hs)
               /\ order_ids' = order_ids + Len(hs)
               /\ is_hedging' = FALSE
               /\ sent' = hs
       ELSE IF id \in DOMAIN futures_asks
       THEN LET hs == Unhedge(is_hedging, BUY, MAX_ASK_NEAREST_TICK, volume, order_ids)
            IN /\ futures_position' = futures_position - volume
               /\ position' = position - volume
               /\ futures_asks' = Remove(futures_asks, id)
               /\ futures_bids' = WithHedge(futures_bids, BUY, hs)
               /\ order_ids' = order_ids + Len(hs)
               /\ is_hedging' = FALSE
               /\ sent' = hs
       ELSE /\ sent' = <<>>
            /\ UNCHANGED <<order_ids, hedges, futures_position, position, is_hedging>>
    /\ last' = Event("hedge_fill", id, volume)
    /\ UNCHANGED <<quotes, etf_position, timer, targets, raised, exchange,
                   history>>

-----------------------------------------------------------------------------
(* on_order_status_message, on_error_message, on_trade_ticks_message *)

\* etf_bids and etf_asks after on_order_status_message(id, _, remaining, _)
StatusBids(id, remaining) ==
    IF remaining = 0 /\ id \in DOMAIN etf_bids THEN Remove(etf_bids, id) ELSE etf_bids

\* the elif branch left out: a zero-remaining status never reaches etf_asks
StatusAsksUntouched(id, remaining) == etf_asks

StatusAsks(id, remaining) ==
    IF remaining = 0 /\ id \notin DOMAIN etf_bids /\ id \in DOMAIN etf_asks
    THEN Remove(etf_asks, id)
    ELSE etf_asks

\* the exchange's books follow the order sets: an id that leaves them is
\* forgotten
Forget(f, ids) == [i \in (DOMAIN f) \cap ids |-> f[i]]

on_order_status_message(id, remaining) ==
    /\ ~raised
    /\ etf_bids' = StatusBids(id, remaining)
    /\ etf_asks' = StatusAsks(id, remaining)
    /\ sent' = <<>>
    /\ last' = Event("status", id, remaining)
    /\ UNCHANGED <<order_ids, hedges, positions, is_hedging, timer, targets,
                   raised, now, dead, history>>

\* the condition with its second membership test left out
ErrorPertainsToBid(id) == id /= 0 /\ id \in DOMAIN etf_bids

\* the condition under which on_error_message passes the id on
ErrorPertains(id) == id /= 0 /\ (id \in DOMAIN etf_bids \/ id \in DOMAIN etf_asks)

on_error_message(id) ==
    /\ ~raised
    /\ IF ErrorPertains(id)
       THEN /\ etf_bids' = StatusBids(id, 0)
            /\ etf_asks' = StatusAsks(id, 0)
       ELSE UNCHANGED quotes
    /\ sent' = <<>>
    /\ last' = Event("error", id, 0)
    /\ UNCHANGED <<order_ids, hedges, positions, is_hedging, timer, targets,
                   raised, now, history>>

on_trade_ticks_message ==
    /\ ~raised
    /\ sent' = <<>>
    /\ last' = Event("trade_ticks", 0, 0)
    /\ UNCHANGED <<order_ids, quotes, hedges, positions, is_hedging, timer,
                   targets, raised, exchange, history>>

-----------------------------------------------------------------------------
(* The exchange: which events it delivers *)

AnyBook(bs) == CHOOSE b \in bs : TRUE

\* the clock and the id counter stay within the model's bounds (MaxTime
\* bounds the steps that move the clock)
Within(limit) == (now' = now \/ now' <= MaxTime) /\ order_ids' <= limit + 1

\* a book snapshot of one of the instruments, from the books bs, after one of
\* the gaps steps
BookUpdate(instruments, bs, steps, limit) ==
    \E instrument \in instruments, b \in bs, dt \in steps :
        \* the handler reads the book and the clock for the future alone, and
        \* the book on the quoting branch alone: one delivery stands for all
        \* that differ in what it does not read
        /\ instrument = ETF => b = AnyBook(bs) /\ dt = 0
        /\ instrument = FUTURE /\ Emergency(now + dt) => b = AnyBook(bs)
        /\ on_order_book_update_message(instrument, b, dt)
        /\ Within(limit)

\* a fill of a quote order: possible, up to the order's lot in total, for as
\* long as the trader holds its id, whether or not a cancel is on its way
QuoteFill(parts, limit) ==
    \E id \in QuoteIds : \E volume \in FillVolumes(ex_remaining[id], parts) :
        /\ on_order_filled_message(id, volume)
        /\ ex_remaining' = [ex_remaining EXCEPT ![id] = @ - volume]
        /\ Within(limit)

\* the answer to a hedge order: its fill, complete or void
HedgeFill(limit) ==
    \E id \in HedgeIds \ dead :
        \E volume \in HedgeVolumes((futures_bids @@ futures_asks)[id].lot) :
            /\ on_hedge_filled_message(id, volume)
            /\ Within(limit)

\* an order status: remaining 0 once the order is cancelled or filled, and
\* (with open_too) the open volume while some is left
OrderStatus(open_too) ==
    \E id \in QuoteIds :
        \E remaining \in {0} \cup (IF open_too THEN {ex_remaining[id]} ELSE {}) :
            /\ remaining = 0 => (id \in cancelled \/ ex_remaining[id] = 0)
            /\ on_order_status_message(id, remaining)
            /\ ex_remaining' = Forget(ex_remaining, QuoteIds')
            /\ cancelled' = cancelled \cap QuoteIds'

\* an error: about no order (id 0), about a quote order, or about a hedge
\* order, which is then dead
Error ==
    \E id \in {0} \cup QuoteIds \cup (HedgeIds \ dead) :
        /\ on_error_message(id)
        /\ ex_remaining' = Forget(ex_remaining, QuoteIds')
        /\ cancelled' = cancelled \cap QuoteIds'
        /\ dead' = IF id \in HedgeIds THEN dead \cup {id} ELSE dead

TradeTicks == on_trade_ticks_message

\* the trading day: books of both instruments after short and long gaps,
\* whole fills, hedge fills, order statuses, trade ticks
Next ==
    \/ BookUpdate({FUTURE, ETF}, Books, TimeSteps, MaxId)
    \/ QuoteFill({}, MaxId)
    \/ HedgeFill(MaxId)
    \/ OrderStatus(TRUE)
    \/ TradeTicks

Spec == Init /\ [][Next]_vars

\* a market in which the trader only gets long: books of the future in
\* quick succession, whole fills, no errors
NextLong ==
    \/ BookUpdate({FUTURE}, LongBooks, {0}, MaxIdLong)
    \/ QuoteFill({}, MaxIdLong)
    \/ HedgeFill(MaxIdLong)
    \/ OrderStatus(FALSE)

SpecLong == Init /\ [][NextLong]_vars

-----------------------------------------------------------------------------
(* A lossy session layer: errors, and events whose order id the trader does *)
(* not hold                                                                  *)

UnknownIds == (0..MaxIdLossy) \ KnownIds

UnknownFill ==
    \E id \in UnknownIds : \E volume \in PartialVolumes :
        /\ on_order_filled_message(id, volume)
        /\ UNCHANGED ex_remaining
        /\ Within(MaxIdLossy)

UnknownHedgeFill ==
    \E id \in UnknownIds : \E volume \in PartialVolumes :
        /\ on_hedge_filled_message(id, volume)
        /\ Within(MaxIdLossy)

UnknownStatus ==
    \E id \in UnknownIds : \E remaining \in {0} \cup PartialVolumes :
        /\ on_order_status_message(id, remaining)
        /\ UNCHANGED <<ex_remaining, cancelled>>

UnknownError ==
    \E id \in UnknownIds \ {0} :
        /\ on_error_message(id)
        /\ UNCHANGED <<ex_remaining, cancelled, dead>>

NextLossy ==
    \/ BookUpdate({FUTURE}, Books, TimeSteps, MaxIdLossy)
    \/ QuoteFill({}, MaxIdLossy)
    \/ OrderStatus(TRUE)
    \/ Error
    \/ UnknownFill
    \/ UnknownHedgeFill
    \/ UnknownStatus
    \/ UnknownError

SpecLossy == Init /\ [][NextLossy]_vars

-----------------------------------------------------------------------------
(* Hedge orders followed up: one book of the future, short and long gaps,   *)
(* whole fills, hedge orders answered in full or not at all                 *)

LateBookUpdate(bs, steps, limit) ==
    \E b \in bs, dt \in steps :
        /\ Emergency(now + dt) => b = AnyBook(bs)
        /\ on_order_book_update_message(FUTURE, b, dt)
        /\ now' <= MaxTimeHedge
        /\ order_ids' <= limit + 1

NextHedge ==
    \/ LateBookUpdate({LowAsk}, TimeSteps, MaxIdHedge)
    \/ QuoteFill({}, MaxIdHedge)
    \/ HedgeFill(MaxIdHedge)

SpecHedge == Init /\ [][NextHedge]_vars

-----------------------------------------------------------------------------
(* Every handler: books of both instruments, fills and hedge fills, zero
   statuses, errors, trade ticks                                            *)

NextFrame ==
    \/ BookUpdate({FUTURE, ETF}, {LowAsk}, TimeSteps, MaxIdFrame)
    \/ QuoteFill({}, MaxIdFrame)
    \/ HedgeFill(MaxIdFrame)
    \/ OrderStatus(FALSE)
    \/ Error
    \/ TradeTicks

SpecFrame == Init /\ [][NextFrame]_vars

-----------------------------------------------------------------------------
(* Fair exchange: ticks of the future keep arriving and every hedge order is
   answered, by its fill or by an error                                     *)

FairBooks == {LowAsk, Quiet, Quieter}

\* ticks and quote fills leave an id for the order a hedge fill may submit
FairTick == BookUpdate({FUTURE}, FairBooks, TimeSteps, MaxIdFair - 1)

HedgeError(id) ==
    /\ on_error_message(id)
    /\ dead' = dead \cup {id}
    /\ UNCHANGED <<ex_remaining, cancelled>>

HedgeAnswer(id) ==
    /\ id \in HedgeIds \ dead
    /\ \/ \E volume \in HedgeVolumes((futures_bids @@ futures_asks)[id].lot) :
              on_hedge_filled_message(id, volume) /\ Within(MaxIdFair)
       \/ HedgeError(id)

NextFair ==
    \/ FairTick
    \/ QuoteFill({}, MaxIdFair - 1)
    \/ \E id \in 1..MaxIdFair : HedgeAnswer(id)

SpecFair ==
    /\ Init /\ [][NextFair]_vars
    /\ WF_vars(FairTick)
    /\ \A id \in 1..MaxIdFair : WF_vars(HedgeAnswer(id))

-----------------------------------------------------------------------------
(* Fills of every kind: whole and partial quote fills, whole and void hedge
   fills, fills and hedge fills for ids the trader does not hold            *)

NextNet ==
    \/ BookUpdate({FUTURE}, Books, TimeSteps, MaxIdNet)
    \/ QuoteFill(PartialVolumes, MaxIdNet)
    \/ HedgeFill(MaxIdNet)
    \/ UnknownFill
    \/ UnknownHedgeFill

SpecNet == Init /\ [][NextNet]_vars

-----------------------------------------------------------------------------
(* Whole fills: the books of several ticks arrive before the first fill, so
   that the quotes of all of them are open; every quote fill and every hedge
   fill is then of the whole lot, and of one lot at least                   *)

\* ticks leave two ids for the hedge orders the fills submit
EarlyBookUpdate(bs, limit) ==
    /\ last.op \in {"init", "book"}
    /\ BookUpdate({FUTURE}, bs, {0}, limit - 2)

WholeHedgeFill(limit) ==
    \E id \in HedgeIds \ dead :
        \E volume \in {(futures_bids @@ futures_asks)[id].lot} :
            /\ volume >= 1
            /\ on_hedge_filled_message(id, volume)
            /\ Within(limit)

NextWhole ==
    \/ EarlyBookUpdate(Books, MaxIdWhole)
    \/ QuoteFill({}, MaxIdWhole)
    \/ WholeHedgeFill(MaxIdWhole)

SpecWhole == Init /\ [][NextWhole]_vars

-----------------------------------------------------------------------------
(* Odd books: one-sided and locked snapshots among the usual ones           *)

NextOdd ==
    \/ BookUpdate({FUTURE}, Books \cup OddBooks, {0}, MaxIdOdd)
    \/ QuoteFill({}, MaxIdOdd)

SpecOdd == Init /\ [][NextOdd]_vars

-----------------------------------------------------------------------------
(* calc_lot_size on its own: any inventory within the limit, liquidities    *)
(* from nothing to beyond the cap                                           *)

\* liquidities on which the float evaluation and the integer one agree for
\* every inventory within the limit
Liquidities == {0, 1, 1000000, 12500000, max_l, 30000000}

InitLotSize ==
    /\ order_ids = 1
    /\ etf_bids = EmptySet /\ etf_asks = EmptySet
    /\ futures_bids = EmptySet /\ futures_asks = EmptySet
    /\ etf_position \in -POSITION_LIMIT..POSITION_LIMIT
    /\ futures_position = 0 /\ position = etf_position
    /\ is_hedging = FALSE
    /\ unhedged_start = 0 /\ unhedged_interval = 0
    /\ new_bid_lot = 0 /\ new_bid_price = 0 /\ bid_liquidity \in Liquidities
    /\ new_ask_lot = 0 /\ new_ask_price = 0 /\ ask_liquidity \in Liquidities
    /\ raised = FALSE
    /\ sent = <<>>
    /\ last = Event("init", 0, 0)
    /\ now = 0
    /\ book = NoBook
    /\ emergency_order = 0
    /\ ex_remaining = EmptySet
    /\ cancelled = {}
    /\ dead = {}

\* the two calls of calc_lot_size in calc_lot_sizes
SizeLots ==
    /\ last.op = "init"
    /\ new_bid_lot' = calc_lot_size(etf_position, bid_liquidity, FALSE)
    /\ new_ask_lot' = calc_lot_size(etf_position, ask_liquidity, TRUE)
    /\ last' = Event("calc_lot_size", 0, 0)
    /\ UNCHANGED <<order_ids, quotes, hedges, positions, is_hedging, timer,
                   new_bid_price, bid_liquidity, new_ask_price, ask_liquidity,
                   raised, sent, exchange, history>>

SpecLotSize == InitLotSize /\ [][SizeLots]_vars

-----------------------------------------------------------------------------
(* calc_liquidity on its own: fixed prices, the volume of one level raised  *)
(* at a time                                                                *)

NoVolumes == <<0, 0, 0, 0, 0>>
\* five levels a side, and two levels a side with the rest absent
Ladders ==
    {Book(<<10100, 10200, 10300, 10400, 10500>>, NoVolumes,
          <<9900, 9800, 9700, 9600, 9500>>, NoVolumes),
     Book(<<10100, 10300, 0, 0, 0>>, NoVolumes,
          <<9800, 9700, 0, 0, 0>>, NoVolumes)}
VolumeSteps == {1, 2}

\* the liquidity of a side of snapshot b, as calc_lot_sizes asks for it
LiquidityOf(b, is_ask) ==
    calc_liquidity(b.ask_prices[1] + b.bid_prices[1],
                   IF is_ask THEN b.ask_prices ELSE b.bid_prices,
                   IF is_ask THEN b.ask_volumes ELSE b.bid_volumes)

InitLiquidity ==
    /\ order_ids = 1
    /\ etf_bids = EmptySet /\ etf_asks = EmptySet
    /\ futures_bids = EmptySet /\ futures_asks = EmptySet
    /\ etf_position = 0 /\ futures_position = 0 /\ position = 0
    /\ is_hedging = FALSE
    /\ unhedged_start = 0 /\ unhedged_interval = 0
    /\ new_bid_lot = 0 /\ new_bid_price = 0 /\ bid_liquidity = 0
    /\ new_ask_lot = 0 /\ new_ask_price = 0 /\ ask_liquidity = 0
    /\ raised = FALSE
    /\ sent = <<>>
    /\ last = Event("init", 0, 0)
    /\ now = 0
    /\ book \in Ladders
    /\ emergency_order = 0
    /\ ex_remaining = EmptySet
    /\ cancelled = {}
    /\ dead = {}

\* the snapshot with the volume of level i of one side raised by d
Raised(b, is_ask, i, d) ==
    IF is_ask THEN [b EXCEPT !.ask_volumes[i] = @ + d]
              ELSE [b EXCEPT !.bid_volumes[i] = @ + d]

\* calc_liquidity for both sides of the snapshot with one volume raised (one
\* side is raised in a run, the other keeps its volumes)
RaiseVolume ==
    \E is_ask \in BOOLEAN, i \in 1..5, d \in VolumeSteps :
        /\ (IF is_ask THEN book.bid_volumes ELSE book.ask_volumes) = NoVolumes
        /\ (IF is_ask THEN book.ask_volumes ELSE book.bid_volumes)[i] + d <= MaxVolume
        /\ book' = Raised(book, is_ask, i, d)
        /\ bid_liquidity' = LiquidityOf(book', FALSE)
        /\ ask_liquidity' = LiquidityOf(book', TRUE)
        /\ last' = Event("calc_liquidity", i, d)
        /\ UNCHANGED <<order_ids, quotes, hedges, positions, is_hedging, timer,
                       new_bid_lot, new_bid_price, new_ask_lot, new_ask_price,
                       raised, sent, exchange, emergency_order>>

SpecLiquidity == InitLiquidity /\ [][RaiseVolume]_vars

-----------------------------------------------------------------------------
(* Properties *)

Cmds(kind) == {i \in DOMAIN sent : sent[i].cmd = kind}
SignedLot(c) == IF c.side = BUY THEN c.lot ELSE -c.lot
TickOfFuture(e) == e.op = "book" /\ e.id = FUTURE

\* C1: No-breach.  After every handler, in every sequence of ticks, quote
\* fills and statuses in which an order is filled for at most its lot while
\* its id is in etf_bids or etf_asks, |etf_position| <= POSITION_LIMIT.
NoBreach == Abs(etf_position) <= POSITION_LIMIT

\* C2: Quoting is suspended while hedging.  A tick of the future that
\* arrives while is_hedging is true computes no quote and inserts no quote
\* order into etf_bids or etf_asks.
QuotingSuspendedWhileHedging ==
    [][(is_hedging /\ ~raised /\ TickOfFuture(last'))
          => /\ \A i \in DOMAIN sent' : sent'[i].cmd /= "insert"
             /\ DOMAIN etf_bids' \subseteq DOMAIN etf_bids
             /\ DOMAIN etf_asks' \subseteq DOMAIN etf_asks
             /\ UNCHANGED targets]_vars

\* C3: Emergency trigger.  A tick of the future that finds |position| above
\* the unhedged buffer for longer than UNHEDGED_LIMIT while is_hedging is
\* false sends a cancel for every id in etf_bids and etf_asks, inserts no
\* quote order, sets is_hedging and submits exactly one hedge order, of lot
\* |position| - 10 on the side that reduces |position|, whose full fill leaves
\* |position| = 10.
EmergencyTrigger ==
    [][(/\ TickOfFuture(last') /\ ~raised /\ ~is_hedging
        /\ Abs(position) > UNHEDGED_POSITION
        /\ now' - unhedged_start > UNHEDGED_LIMIT)
          => /\ \A id \in QuoteIds :
                   \E i \in DOMAIN sent' : sent'[i] = CancelCmd(id)
             /\ \A i \in DOMAIN sent' : sent'[i].cmd /= "insert"
             /\ QuoteIds' = QuoteIds
             /\ is_hedging'
             /\ \E i \in DOMAIN sent' :
                   /\ sent'[i].cmd = "hedge"
                   /\ \A j \in DOMAIN sent' : sent'[j].cmd = "hedge" => j = i
                   /\ sent'[i].lot = Abs(position) - 10
                   /\ sent'[i].side = IF position > 0 THEN SELL ELSE BUY
                   /\ Abs(position + SignedLot(sent'[i])) = 10
                   /\ sent'[i].id \in HedgeIds' \ HedgeIds]_vars

\* an emergency hedge has just been submitted and a resting quote cancelled
EmergencyTriggered ==
    /\ TickOfFuture(last) /\ is_hedging
    /\ Cmds("hedge") /= {} /\ Cmds("cancel") /= {}

\* C4: Resting-set consistency.  After on_order_status_message with
\* remaining_volume 0 for an id, that id is a key of neither etf_bids nor
\* etf_asks.
ZeroStatusRemoves ==
    (last.op = "status" /\ last.vol = 0) => last.id \notin QuoteIds

\* a zero-remaining status for an order the trader held has been handled
ZeroStatusHandled == last.op = "status" /\ last.vol = 0 /\ last.held

\* C5: Normal hedging after a primary fill.  A fill of v > 0 lots of a resting
\* quote order, handled while the primary and the hedge position are both 0,
\* submits exactly one hedge order, on the side opposite to the fill, at the
\* extreme tick price of that side, for a fraction of v.
HedgeAfterPrimaryFill ==
    [][(/\ last'.op = "fill" /\ last'.held /\ last'.vol > 0 /\ ~raised
        /\ etf_position = 0 /\ futures_position = 0)
          => /\ Len(sent') = 1
             /\ sent'[1].cmd = "hedge"
             /\ sent'[1].side = IF last'.id \in DOMAIN etf_bids THEN SELL ELSE BUY
             /\ sent'[1].price = IF last'.id \in DOMAIN etf_bids
                                 THEN MIN_BID_NEAREST_TICK
                                 ELSE MAX_ASK_NEAREST_TICK
             /\ sent'[1].lot \in 0..last'.vol]_vars

\* C6: An unrecognized order id is fatal.  A fill, hedge fill or order status
\* whose id is in none of the order sets leaves the trader halted and submits
\* no order.
UnknownIdIsFatal ==
    (last.op \in {"fill", "hedge_fill", "status"} /\ ~last.held)
        => raised /\ sent = <<>>

\* C7: Hedge position bound.  After every handler |futures_position| <=
\* POSITION_LIMIT, and no hedge order is submitted whose fill would take the
\* hedge position past the limit.
HedgePositionBound ==
    /\ Abs(futures_position) <= POSITION_LIMIT
    /\ \A i \in Cmds("hedge") :
          Abs(futures_position + SignedLot(sent[i])) <= POSITION_LIMIT

\* C8: Quote insert guard.  Every quote order reset_orders submits has
\* lot > 0, price > 0 and |etf_position + signedLot| < POSITION_LIMIT at the
\* time it is inserted (a tick leaves etf_position as it was).
QuoteInsertGuard ==
    TickOfFuture(last) =>
        \A i \in Cmds("insert") :
            /\ sent[i].lot > 0
            /\ sent[i].price > 0
            /\ Abs(etf_position + SignedLot(sent[i])) < POSITION_LIMIT

\* the orders of a side that the exchange can still fill
Fillable(order_set) == {id \in DOMAIN order_set : ex_remaining[id] > 0}

\* C9: At most one live quote per side.  Each of etf_bids and etf_asks holds
\* at most one order that is not yet confirmed gone, and after a requote the
\* newly inserted order is the only one of its side that can still be filled.
OneLiveQuotePerSide ==
    /\ Cardinality(DOMAIN etf_bids) <= 1
    /\ Cardinality(DOMAIN etf_asks) <= 1
    /\ \A i \in Cmds("insert") :
          Fillable(IF sent[i].side = BUY THEN etf_bids ELSE etf_asks) = {sent[i].id}

\* C10: on_error_message equals a zero-remaining status.  Handling an error
\* for an id leaves the order sets, the positions and is_hedging as handling
\* on_order_status_message(id, 0, 0, 0) leaves them and sends the same
\* commands (none); for id 0 or an id in no set it changes nothing.
ErrorIsZeroStatus ==
    [][(last'.op = "error" /\ ~raised)
          => /\ etf_bids' = StatusBids(last'.id, 0)
             /\ etf_asks' = StatusAsks(last'.id, 0)
             /\ sent' = <<>>
             /\ UNCHANGED <<hedges, positions, is_hedging>>
             /\ (last'.id = 0 \/ last'.id \notin KnownIds)
                   => UNCHANGED <<order_ids, quotes, hedges, positions,
                                  is_hedging, timer, targets, raised>>]_vars

\* an error for a quote order the trader held has been handled and the order
\* is gone from its set
ErrorForHeldQuote ==
    last.op = "error" /\ last.held /\ last.id \notin KnownIds

\* C11: Size bound.  For every etf_position within the limit and every
\* liquidity >= 0, calc_lot_size returns an integer in 0..40, and exactly 0
\* for the bid side at etf_position = 100 and for the ask side at -100.
LotSizeBound ==
    last.op = "calc_lot_size" =>
        /\ new_bid_lot \in 0..LOT_SIZE_ARBITARY_NUMBER
        /\ new_ask_lot \in 0..LOT_SIZE_ARBITARY_NUMBER
        /\ etf_position = POSITION_LIMIT => new_bid_lot = 0
        /\ etf_position = -POSITION_LIMIT => new_ask_lot = 0

\* both ends at once: at the long limit with liquidity beyond the cap the bid
\* lot is 0 and the ask lot is the whole 40
LotSizeAtLimit ==
    /\ last.op = "calc_lot_size" /\ etf_position = POSITION_LIMIT
    /\ bid_liquidity > max_l /\ ask_liquidity > max_l
    /\ new_bid_lot = 0 /\ new_ask_lot = LOT_SIZE_ARBITARY_NUMBER

\* C12: Liquidity monotonicity.  With the level prices and the mid price
\* fixed and no level priced at the mid, raising the volume of one level never
\* lowers the value calc_liquidity returns.
LiquidityMonotone ==
    [][last'.op = "calc_liquidity"
          => /\ bid_liquidity' >= bid_liquidity
             /\ ask_liquidity' >= ask_liquidity]_vars

\* the best bid level has been raised to the largest volume and counts
LiquidityRaised ==
    /\ last.op = "calc_liquidity"
    /\ book.bid_volumes[1] = MaxVolume
    /\ bid_liquidity > 0

\* C13: Hedging -> Normal only on the emergency order's fill.  is_hedging
\* turns from true to false only in the handler of the hedge fill whose id is
\* that of the order emergency_hedge submitted last; the fill of any other
\* hedge order leaves it true.
HedgingEndsOnEmergencyFill ==
    [][(is_hedging /\ ~is_hedging')
          => last'.op = "hedge_fill" /\ last'.id = emergency_order]_vars

\* C14: Counter-hedge only on overshoot.  The handler of the emergency hedge
\* order's fill submits a hedge order, in the opposite direction, exactly
\* when the fill took the net position past zero.
CounterHedgeOnlyOnOvershoot ==
    [][(/\ last'.op = "hedge_fill" /\ last'.held
        /\ is_hedging /\ last'.id = emergency_order)
          => /\ (\E i \in DOMAIN sent' : sent'[i].cmd = "hedge")
                    <=> position * position' < 0
             /\ \A i \in DOMAIN sent' :
                    sent'[i].side = IF last'.id \in DOMAIN futures_bids
                                    THEN SELL ELSE BUY]_vars

\* a tick of the future has run the quoting pass (not the emergency branch)
QuotingPass(e, cmds) ==
    TickOfFuture(e) /\ \A i \in DOMAIN cmds : cmds[i].cmd /= "hedge"
\* both sides of snapshot b have a best price
TwoSided(b) == b.ask_prices[1] /= 0 /\ b.bid_prices[1] /= 0
\* a level of snapshot b is priced at the mid of its best prices
LevelAtMid(b) ==
    \E i \in 1..5 : \E p \in {b.ask_prices[i], b.bid_prices[i]} :
        p /= 0 /\ 2 * p = b.ask_prices[1] + b.bid_prices[1]

\* C15: No domain error on breached inventory.  calc_lot_size completes on
\* every tick of the future, also with |etf_position| > 100, and where the
\* argument of the square root is negative for a side that side's lot is 0.
NoDomainError ==
    [][(/\ QuotingPass(last', sent') /\ ~raised
        /\ TwoSided(book') /\ ~LevelAtMid(book'))
          => /\ ~raised'
             /\ etf_position > POSITION_LIMIT => new_bid_lot' = 0
             /\ etf_position < -POSITION_LIMIT => new_ask_lot' = 0]_vars

\* the level prices with every level at the mid taken as absent
MidLevelsOut(b, prices) ==
    [i \in 1..5 |-> IF 2 * prices[i] = b.ask_prices[1] + b.bid_prices[1]
                    THEN 0 ELSE prices[i]]

\* C16: Zero-denominator sentinel.  On a tick of the future in which a level
\* with a price is priced at the mid, calc_liquidity counts that level with
\* distance 0 and the handler completes without a numeric error.
MidLevelIsSentinel ==
    [][(/\ QuotingPass(last', sent') /\ ~raised
        /\ TwoSided(book') /\ LevelAtMid(book')
        /\ Abs(etf_position) <= POSITION_LIMIT)
          => /\ ~raised'
             /\ bid_liquidity' =
                   calc_liquidity(book'.ask_prices[1] + book'.bid_prices[1],
                                  MidLevelsOut(book', book'.bid_prices),
                                  book'.bid_volumes)
             /\ ask_liquidity' =
                   calc_liquidity(book'.ask_prices[1] + book'.bid_prices[1],
                                  MidLevelsOut(book', book'.ask_prices),
                                  book'.ask_volumes)]_vars

\* the lot calc_lot_size gives for a side of snapshot b at inventory etf_pos
FreshLot(b, etf_pos, is_ask) == calc_lot_size(etf_pos, LiquidityOf(b, is_ask), is_ask)

\* C17: Quote targets are not carried across ticks.  On every tick of the
\* future that reaches the requote step the liquidities and lots are those
\* computed from that tick's snapshot and the current etf_position, also when
\* the best bid or the best ask of the snapshot is 0.
TargetsAreFresh ==
    [][(/\ QuotingPass(last', sent') /\ ~raised /\ ~raised')
          => /\ bid_liquidity' = LiquidityOf(book', FALSE)
             /\ ask_liquidity' = LiquidityOf(book', TRUE)
             /\ new_bid_lot' = FreshLot(book', etf_position, FALSE)
             /\ new_ask_lot' = FreshLot(book', etf_position, TRUE)]_vars

\* the event is the one that lets the trader forget quote order id
Releases(e, id) == e.op \in {"status", "error"} /\ e.id = id /\ e.vol = 0

\* C18: Cancel is advisory.  An id held in etf_bids or etf_asks stays in that
\* set, also once a cancel has been sent for it, until a zero-remaining status
\* or an error for that id is handled; a fill for a cancelled id is applied
\* to etf_position: +volume for a bid, -volume for an ask.
CancelIsAdvisory ==
    [][/\ \A id \in DOMAIN etf_bids :
             id \in DOMAIN etf_bids' \/ Releases(last', id)
       /\ \A id \in DOMAIN etf_asks :
             id \in DOMAIN etf_asks' \/ Releases(last', id)
       /\ \A id \in cancelled :
             last'.op = "fill" /\ last'.id = id
               => /\ id \in DOMAIN etf_bids
                       => etf_position' = etf_position + last'.vol
                  /\ id \in DOMAIN etf_asks
                       => etf_position' = etf_position - last'.vol]_vars

\* a cancelled quote order has been filled
CancelledQuoteFilled ==
    /\ last.op = "fill" /\ last.vol > 0
    /\ last.id \in cancelled /\ last.id \in QuoteIds

\* C19: Positions change only in fill handlers.  Book updates of either
\* instrument (the emergency branch included), order statuses, errors and
\* trade ticks leave etf_position, futures_position and position as they
\* are; a quote fill leaves futures_position, a hedge fill etf_position.
PositionsFrame ==
    [][/\ last'.op \in {"book", "status", "error", "trade_ticks"}
             => UNCHANGED positions
       /\ last'.op = "fill" => UNCHANGED futures_position
       /\ last'.op = "hedge_fill" => UNCHANGED etf_position
       /\ last'.op \in {"book", "status", "error", "trade_ticks", "fill",
                        "hedge_fill"}]_vars

\* a hedge fill has moved futures_position while quote fills are on the book,
\* and the emergency branch ran before it
HedgeFillMovedFuture ==
    /\ last.op = "hedge_fill" /\ last.vol > 0
    /\ etf_position /= 0 /\ futures_position /= 0
    /\ emergency_order /= 0

\* C20: Hedging always ends.  Whenever is_hedging becomes true it becomes
\* false again, provided every hedge order is answered by its fill or by an
\* error and ticks of the future keep arriving.
HedgingEnds == is_hedging ~> ~is_hedging

\* C21: Net-position bookkeeping.  After any sequence of quote fills and
\* hedge fills, for ids the trader holds or not, position is the sum of
\* etf_position and futures_position.
NetPosition == position = etf_position + futures_position

\* a hedge fill has been booked next to quote fills
HedgeFillBooked ==
    /\ last.op = "hedge_fill" /\ last.held /\ last.vol > 0
    /\ etf_position /= 0 /\ position /= etf_position

\* C22: Hedge orders are never empty.  Every hedge order a handler submits,
\* with every fill of one lot or more, has a lot of one or more.
NoEmptyHedge ==
    (last.op \in {"fill", "hedge_fill"} => last.vol >= 1)
        => \A i \in Cmds("hedge") : sent[i].lot >= 1

====
